---- MODULE Spec2Model ----
(***************************************************************************)
(* The content-visibility filter of the application: filterPreferences of  *)
(* components/HiddenPreferences/useApplyHiddenPreferences.ts.              *)
(*                                                                         *)
(* Conventions of the translation                                          *)
(*   - an absent (undefined / null) user id is 0; real ids are >= 1, so    *)
(*     `x && ...` reads x # 0 and `x === y` reads x = y (undefined ===     *)
(*     undefined is TRUE, as in the source);                               *)
(*   - currentUser = null is the record with id 0 and isModerator FALSE    *)
(*     (currentUser?.id is undefined, !!currentUser?.isModerator false);   *)
(*   - a Map<number, boolean> of the preferences is the set of its keys    *)
(*     (the provider only stores `true`);                                  *)
(*   - an array of tag ids is the set of its elements (the code only asks  *)
(*     whether some element is hidden);                                    *)
(*   - an optional object (coverImage, image) is a sequence of length 0    *)
(*     or 1; a field a returned object does not have is a field the        *)
(*     record does not have.                                               *)
(***************************************************************************)
EXTENDS Integers, Sequences, FiniteSets, TLC

VARIABLES currentUser, systemBrowsingLevel, pc, args, ret

\* useApplyHiddenPreferences: the value of the preferences context, the value
\* and dependencies useMemo holds, the `previous` state, and the props and
\* the result of the last render
VARIABLES hiddenPreferencesContext, memo, previous, props, hookResult

hookVars == <<hiddenPreferencesContext, memo, previous, props, hookResult>>

\* InViewLoader: what useInView last reported, the loadCondition the parent
\* last passed, the canLoad state, the values of the three in the last
\* committed render, the dependencies the effect last ran with, and the
\* invocations of loadFn so far with what became of each
VARIABLES inView, loadCondition, canLoad, rendered, effectDeps, loads

loaderVars == <<inView, loadCondition, canLoad, rendered, effectDeps, loads>>

vars == <<currentUser, systemBrowsingLevel, pc, args, ret,
          hiddenPreferencesContext, memo, previous, props, hookResult,
          inView, loadCondition, canLoad, rendered, effectDeps, loads>>

(***************************************************************************)
(* NsfwLevel (server/common/enums): the maturity tiers are single bits.    *)
(***************************************************************************)
PG == 1
PG13 == 2
R == 4

(***************************************************************************)
(* Bounds of the model.                                                    *)
(***************************************************************************)
MaxItems == 2
MaxImages == 2
MaxUserId == 2
MaxTagId == 1

(***************************************************************************)
(* Flags (shared/utils) and parseBitwiseBrowsingLevel.                     *)
(***************************************************************************)
RECURSIVE BitAnd(_, _)
BitAnd(x, y) ==
    IF x = 0 \/ y = 0 THEN 0
    ELSE (x % 2) * (y % 2) + 2 * BitAnd(x \div 2, y \div 2)

intersects(instance, flag) == BitAnd(instance, flag) # 0

RECURSIVE parseBitwiseBrowsingLevel(_)
parseBitwiseBrowsingLevel(level) ==
    IF level = 0 THEN {}
    ELSE {2 * b : b \in parseBitwiseBrowsingLevel(level \div 2)}
         \cup (IF level % 2 = 1 THEN {1} ELSE {})

\* Math.max(...xs); of no argument it is -Infinity, here -1 (below every level)
MathMax(xs) == IF xs = {} THEN -1 ELSE CHOOSE m \in xs : \A x \in xs : x <= m

maxValue(flag) == MathMax(parseBitwiseBrowsingLevel(flag))

(***************************************************************************)
(* The hidden tally and the two outcomes of a filter callback.             *)
(***************************************************************************)
ZeroHidden ==
    [unprocessed |-> 0, browsingLevel |-> 0, models |-> 0, images |-> 0,
     tags |-> 0, users |-> 0, noImages |-> 0]

\* hidden.k++
Inc(hidden, k) == [hidden EXCEPT ![k] = @ + 1]

\* return true
Keep(hidden) == [keep |-> TRUE, hidden |-> hidden]

\* hidden.k++; return false
Drop(hidden, k) == [keep |-> FALSE, hidden |-> Inc(hidden, k)]

\* value.filter(cb), the callback threading the tally it increments
RECURSIVE ArrayFilter(_, _, _, _)
ArrayFilter(cb(_, _, _), value, a, acc) ==
    IF value = <<>> THEN acc
    ELSE LET r == cb(Head(value), a, acc.hidden)
         IN ArrayFilter(cb, Tail(value), a,
                [items  |-> IF r.keep THEN Append(acc.items, Head(value))
                            ELSE acc.items,
                 hidden |-> r.hidden])

\* value.map(cb).filter(isDefined): cb gives <<>> for null, <<x>> for x
RECURSIVE ArrayMapDefined(_, _, _, _)
ArrayMapDefined(cb(_, _, _), value, a, acc) ==
    IF value = <<>> THEN acc
    ELSE LET r == cb(Head(value), a, acc.hidden)
         IN ArrayMapDefined(cb, Tail(value), a,
                [items |-> acc.items \o r.item, hidden |-> r.hidden])

Start == [items |-> <<>>, hidden |-> ZeroHidden]

isModerator(a) == a.currentUser.isModerator

\* for (const tag of tags ?? []) if (hiddenTags.get(tag)) ...
anyHiddenTag(tags, a) == tags \cap a.hiddenPreferences.hiddenTags # {}

\* x.f of an object that may not have the field f (undefined reads as absent)
Field(x, f, absent) == IF f \in DOMAIN x THEN x[f] ELSE absent

\* a ?? b on user ids
Coalesce(x, y) == IF x # 0 THEN x ELSE y

\* the object without the fields fs, as the rest pattern ({fs, ...x}) leaves it
Rest(x, fs) == [f \in DOMAIN x \ fs |-> x[f]]

\* {...x, images: imgs}
WithImages(x, imgs) ==
    [f \in DOMAIN x \cup {"images"} |-> IF f = "images" THEN imgs ELSE x[f]]

(***************************************************************************)
(* case 'models'                                                           *)
(***************************************************************************)
\* Variant of modelsFilter that tests the hidden tags before the hidden users.
modelsFilter_tagsFirst(model, a, hidden) ==
    LET userId  == model.user
        isOwner == userId = a.currentUser.id
    IN  IF (isOwner \/ isModerator(a)) /\ model.nsfwLevel = 0 THEN Keep(hidden)
        ELSE IF ~intersects(model.nsfwLevel, a.browsingLevel)
        THEN Drop(hidden, "browsingLevel")
        ELSE IF anyHiddenTag(model.tags, a) THEN Drop(hidden, "tags")
        ELSE IF userId # 0 /\ userId \in a.hiddenPreferences.hiddenUsers
        THEN Drop(hidden, "users")
        ELSE IF model.id \in a.hiddenPreferences.hiddenModels /\ ~a.showHidden
        THEN Drop(hidden, "models")
        ELSE Keep(hidden)

modelsFilter(model, a, hidden) ==
    LET userId  == model.user
        isOwner == userId = a.currentUser.id
    IN  IF (isOwner \/ isModerator(a)) /\ model.nsfwLevel = 0 THEN Keep(hidden)
        ELSE IF ~intersects(model.nsfwLevel, a.browsingLevel)
        THEN Drop(hidden, "browsingLevel")
        ELSE IF userId # 0 /\ userId \in a.hiddenPreferences.hiddenUsers
        THEN Drop(hidden, "users")
        ELSE IF model.id \in a.hiddenPreferences.hiddenModels /\ ~a.showHidden
        THEN Drop(hidden, "models")
        ELSE IF anyHiddenTag(model.tags, a) THEN Drop(hidden, "tags")
        ELSE Keep(hidden)

modelsImageFilter(i, nsfw, a) ==
    LET userId  == i.userId
        isOwner == userId # 0 /\ userId = a.currentUser.id
        maxSelectedLevel == MathMax(parseBitwiseBrowsingLevel(a.browsingLevel))
    IN  IF (isOwner \/ isModerator(a)) /\ i.nsfwLevel = 0 THEN TRUE
        ELSE IF (IF nsfw THEN i.nsfwLevel > maxSelectedLevel
                 ELSE ~intersects(i.nsfwLevel, a.browsingLevel))
        THEN FALSE
        ELSE IF i.id \in a.hiddenPreferences.hiddenImages THEN FALSE
        ELSE IF anyHiddenTag(i.tags, a) THEN FALSE
        ELSE TRUE

\* Variant of sortedImages with the comparator reversed.
sortedImages_missFirst(filteredImages, a) ==
    LET hit(i) == intersects(i.nsfwLevel, a.browsingLevel)
        miss(i) == ~intersects(i.nsfwLevel, a.browsingLevel)
    IN  SelectSeq(filteredImages, miss) \o SelectSeq(filteredImages, hit)

\* the stable Array.prototype.sort under the comparator of the source:
\* the images intersecting the browsing level first, each group in order
sortedImages(filteredImages, a) ==
    LET hit(i) == intersects(i.nsfwLevel, a.browsingLevel)
        miss(i) == ~intersects(i.nsfwLevel, a.browsingLevel)
    IN  SelectSeq(filteredImages, hit) \o SelectSeq(filteredImages, miss)

\* Variant of modelsMap that returns the model whatever showImageless is.
modelsMap_keepsParent(model, a, hidden) ==
    LET x == Rest(model, {"images"})
        keepImage(i) == modelsImageFilter(i, x.nsfw, a)
        filteredImages == SelectSeq(Field(model, "images", <<>>), keepImage)
        sorted == IF x.nsfw THEN sortedImages(filteredImages, a) ELSE filteredImages
        h == IF Len(sorted) = 0 THEN Inc(hidden, "noImages") ELSE hidden
    IN  [item |-> <<WithImages(x, sorted)>>, hidden |-> h]

\* Variant of modelsMap in which the exemption of the model covers its images.
modelsMap_cascades(model, a, hidden) ==
    LET x == Rest(model, {"images"})
        exempt == (x.user = a.currentUser.id \/ isModerator(a)) /\ x.nsfwLevel = 0
        keepImage(i) == exempt \/ modelsImageFilter(i, x.nsfw, a)
        filteredImages == SelectSeq(Field(model, "images", <<>>), keepImage)
        sorted == IF x.nsfw THEN sortedImages(filteredImages, a) ELSE filteredImages
        h == IF Len(sorted) = 0 THEN Inc(hidden, "noImages") ELSE hidden
    IN  [item   |-> IF Len(sorted) # 0 \/ a.showImageless
                    THEN <<WithImages(x, sorted)>> ELSE <<>>,
         hidden |-> h]

\* sort works in place: with x.nsfw, filteredImages is the sorted array
modelsMap(model, a, hidden) ==
    LET x == Rest(model, {"images"})
        keepImage(i) == modelsImageFilter(i, x.nsfw, a)
        filteredImages == SelectSeq(Field(model, "images", <<>>), keepImage)
        sorted == IF x.nsfw THEN sortedImages(filteredImages, a) ELSE filteredImages
        h == IF Len(sorted) = 0 THEN Inc(hidden, "noImages") ELSE hidden
    IN  [item   |-> IF Len(sorted) # 0 \/ a.showImageless
                    THEN <<WithImages(x, sorted)>> ELSE <<>>,
         hidden |-> h]

filterModels(a) ==
    LET passed == ArrayFilter(modelsFilter, a.data, a, Start)
    IN  ArrayMapDefined(modelsMap, passed.items, a,
            [items |-> <<>>, hidden |-> passed.hidden])

(***************************************************************************)
(* case 'images'                                                           *)
(***************************************************************************)
\* Variant of imagesFilter without the owner/moderator exemption.
imagesFilter_noExemption(image, a, hidden) ==
    LET userId  == Coalesce(image.userId, image.user)
    IN  IF (IF a.allowLowerLevels
            THEN image.nsfwLevel > maxValue(a.browsingLevel)
            ELSE ~intersects(image.nsfwLevel, a.browsingLevel))
        THEN Drop(hidden, "browsingLevel")
        ELSE IF userId # 0 /\ userId \in a.hiddenPreferences.hiddenUsers
        THEN Drop(hidden, "users")
        ELSE IF image.id \in a.hiddenPreferences.hiddenImages /\ ~a.showHidden
        THEN Drop(hidden, "images")
        ELSE IF anyHiddenTag(image.tagIds, a) THEN Drop(hidden, "tags")
        ELSE Keep(hidden)

\* Variant of imagesFilter that always compares with the highest enabled tier.
imagesFilter_threshold(image, a, hidden) ==
    LET userId  == Coalesce(image.userId, image.user)
        isOwner == userId # 0 /\ userId = a.currentUser.id
    IN  IF (isOwner \/ isModerator(a)) /\ image.nsfwLevel = 0 THEN Keep(hidden)
        ELSE IF image.nsfwLevel > maxValue(a.browsingLevel)
        THEN Drop(hidden, "browsingLevel")
        ELSE IF userId # 0 /\ userId \in a.hiddenPreferences.hiddenUsers
        THEN Drop(hidden, "users")
        ELSE IF image.id \in a.hiddenPreferences.hiddenImages /\ ~a.showHidden
        THEN Drop(hidden, "images")
        ELSE IF anyHiddenTag(image.tagIds, a) THEN Drop(hidden, "tags")
        ELSE Keep(hidden)

\* Variant of imagesFilter that never reads allowLowerLevels.
imagesFilter_intersectsOnly(image, a, hidden) ==
    LET userId  == Coalesce(image.userId, image.user)
        isOwner == userId # 0 /\ userId = a.currentUser.id
    IN  IF (isOwner \/ isModerator(a)) /\ image.nsfwLevel = 0 THEN Keep(hidden)
        ELSE IF ~intersects(image.nsfwLevel, a.browsingLevel)
        THEN Drop(hidden, "browsingLevel")
        ELSE IF userId # 0 /\ userId \in a.hiddenPreferences.hiddenUsers
        THEN Drop(hidden, "users")
        ELSE IF image.id \in a.hiddenPreferences.hiddenImages /\ ~a.showHidden
        THEN Drop(hidden, "images")
        ELSE IF anyHiddenTag(image.tagIds, a) THEN Drop(hidden, "tags")
        ELSE Keep(hidden)

\* Variant of imagesFilter that hides a hidden image whatever showHidden is.
imagesFilter_ignoresShowHidden(image, a, hidden) ==
    LET userId  == Coalesce(image.userId, image.user)
        isOwner == userId # 0 /\ userId = a.currentUser.id
    IN  IF (isOwner \/ isModerator(a)) /\ image.nsfwLevel = 0 THEN Keep(hidden)
        ELSE IF (IF a.allowLowerLevels
                 THEN image.nsfwLevel > maxValue(a.browsingLevel)
                 ELSE ~intersects(image.nsfwLevel, a.browsingLevel))
        THEN Drop(hidden, "browsingLevel")
        ELSE IF userId # 0 /\ userId \in a.hiddenPreferences.hiddenUsers
        THEN Drop(hidden, "users")
        ELSE IF image.id \in a.hiddenPreferences.hiddenImages
        THEN Drop(hidden, "images")
        ELSE IF anyHiddenTag(image.tagIds, a) THEN Drop(hidden, "tags")
        ELSE Keep(hidden)

imagesFilter(image, a, hidden) ==
    LET userId  == Coalesce(image.userId, image.user)
        isOwner == userId # 0 /\ userId = a.currentUser.id
    IN  IF (isOwner \/ isModerator(a)) /\ image.nsfwLevel = 0 THEN Keep(hidden)
        ELSE IF (IF a.allowLowerLevels
                 THEN image.nsfwLevel > maxValue(a.browsingLevel)
                 ELSE ~intersects(image.nsfwLevel, a.browsingLevel))
        THEN Drop(hidden, "browsingLevel")
        ELSE IF userId # 0 /\ userId \in a.hiddenPreferences.hiddenUsers
        THEN Drop(hidden, "users")
        ELSE IF image.id \in a.hiddenPreferences.hiddenImages /\ ~a.showHidden
        THEN Drop(hidden, "images")
        ELSE IF anyHiddenTag(image.tagIds, a) THEN Drop(hidden, "tags")
        ELSE Keep(hidden)

filterImages(a) == ArrayFilter(imagesFilter, a.data, a, Start)

(***************************************************************************)
(* case 'articles'                                                         *)
(***************************************************************************)
articlesFilter(article, a, hidden) ==
    LET userId  == article.user
        isOwner == userId = a.currentUser.id
    IN  IF (isOwner \/ isModerator(a)) /\ article.nsfwLevel = 0 THEN Keep(hidden)
        ELSE IF ~intersects(article.nsfwLevel, a.browsingLevel)
        THEN Drop(hidden, "browsingLevel")
        ELSE IF article.user # 0 /\ article.user \in a.hiddenPreferences.hiddenUsers
        THEN Drop(hidden, "users")
        ELSE IF anyHiddenTag(article.tags, a) THEN Drop(hidden, "tags")
        ELSE IF article.coverImage # <<>>
        THEN IF article.coverImage[1].id \in a.hiddenPreferences.hiddenImages
             THEN Drop(hidden, "images")
             ELSE IF anyHiddenTag(article.coverImage[1].tags, a)
             THEN Drop(hidden, "tags")
             ELSE Keep(hidden)
        ELSE Keep(hidden)

filterArticles(a) == ArrayFilter(articlesFilter, a.data, a, Start)

(***************************************************************************)
(* case 'users'                                                            *)
(***************************************************************************)
\* Variant of usersFilter without the test for the viewer.
usersFilter_hidesSelf(user, a, hidden) ==
    IF user.id \in a.hiddenPreferences.hiddenUsers THEN Drop(hidden, "users")
    ELSE Keep(hidden)

usersFilter(user, a, hidden) ==
    IF user.id = a.currentUser.id THEN Keep(hidden)
    ELSE IF user.id \in a.hiddenPreferences.hiddenUsers THEN Drop(hidden, "users")
    ELSE Keep(hidden)

filterUsers(a) == ArrayFilter(usersFilter, a.data, a, Start)

(***************************************************************************)
(* case 'collections'                                                      *)
(***************************************************************************)
\* for (const tag of collection.image.tagIds ?? [])
\*   if (hiddenTags.get(tag)) hidden.images++;      (no return)
collectionsImageTags(tagIds, a, hidden) ==
    [hidden EXCEPT !.images = @ + Cardinality(tagIds \cap a.hiddenPreferences.hiddenTags)]

collectionsFilter(collection, a, hidden) ==
    LET userId  == Coalesce(collection.userId, collection.user)
        isOwner == userId # 0 /\ userId = a.currentUser.id
        image   == Field(collection, "image", <<>>)
    IN  IF (isOwner \/ isModerator(a)) /\ collection.nsfwLevel = 0 THEN Keep(hidden)
        ELSE IF ~intersects(collection.nsfwLevel, a.browsingLevel)
        THEN Drop(hidden, "browsingLevel")
        ELSE IF userId # 0 /\ userId \in a.hiddenPreferences.hiddenUsers
        THEN Drop(hidden, "users")
        ELSE IF image # <<>>
        THEN IF image[1].id \in a.hiddenPreferences.hiddenImages
             THEN Drop(hidden, "images")
             ELSE Keep(collectionsImageTags(image[1].tagIds, a, hidden))
        ELSE Keep(hidden)

collectionsImageFilter(i, a) ==
    LET userId  == i.userId
        isOwner == userId = a.currentUser.id
    IN  IF (isOwner \/ isModerator(a)) /\ i.nsfwLevel = 0 THEN TRUE
        ELSE IF ~intersects(i.nsfwLevel, a.browsingLevel) THEN FALSE
        ELSE IF i.id \in a.hiddenPreferences.hiddenImages THEN FALSE
        ELSE IF anyHiddenTag(i.tagIds, a) THEN FALSE
        ELSE TRUE

\* Variant of collectionsMap that leaves the featured image on the returned
\* collection ({...x, image, images: filteredImages}).
collectionsMap_keepsImage(collection, a, hidden) ==
    LET x == Rest(collection, {"images"})
        images == Field(collection, "images", <<>>)
        image == Field(collection, "image", <<>>)
        mergedImages == IF image # <<>> THEN images \o image ELSE images
        keepImage(i) == collectionsImageFilter(i, a)
        filteredImages == SelectSeq(mergedImages, keepImage)
        h == IF Len(filteredImages) = 0 THEN Inc(hidden, "noImages") ELSE hidden
    IN  [item   |-> IF Len(filteredImages) # 0 \/ a.showImageless
                    THEN <<WithImages(x, filteredImages)>> ELSE <<>>,
         hidden |-> h]

collectionsMap(collection, a, hidden) ==
    LET x == Rest(collection, {"images", "image"})
        images == Field(collection, "images", <<>>)
        image == Field(collection, "image", <<>>)
        mergedImages == IF image # <<>> THEN images \o image ELSE images
        keepImage(i) == collectionsImageFilter(i, a)
        filteredImages == SelectSeq(mergedImages, keepImage)
        h == IF Len(filteredImages) = 0 THEN Inc(hidden, "noImages") ELSE hidden
    IN  [item   |-> IF Len(filteredImages) # 0 \/ a.showImageless
                    THEN <<WithImages(x, filteredImages)>> ELSE <<>>,
         hidden |-> h]

filterCollections(a) ==
    LET passed == ArrayFilter(collectionsFilter, a.data, a, Start)
    IN  ArrayMapDefined(collectionsMap, passed.items, a,
            [items |-> <<>>, hidden |-> passed.hidden])

(***************************************************************************)
(* case 'bounties'                                                         *)
(***************************************************************************)
bountiesFilter(bounty, a, hidden) ==
    LET userId  == bounty.user
        isOwner == userId = a.currentUser.id
    IN  IF (isOwner \/ isModerator(a)) /\ bounty.nsfwLevel = 0 THEN Keep(hidden)
        ELSE IF ~intersects(bounty.nsfwLevel, a.browsingLevel)
        THEN Drop(hidden, "browsingLevel")
        ELSE IF bounty.user \in a.hiddenPreferences.hiddenUsers
        THEN Drop(hidden, "users")
        ELSE IF \E k \in 1 .. Len(bounty.images) :
                    bounty.images[k].id \in a.hiddenPreferences.hiddenImages
        THEN Drop(hidden, "images")
        ELSE IF anyHiddenTag(bounty.tags, a) THEN Drop(hidden, "tags")
        ELSE Keep(hidden)

bountiesImageFilter(i, a) ==
    LET userId  == i.userId
        isOwner == userId = a.currentUser.id
    IN  IF (isOwner \/ isModerator(a)) /\ i.nsfwLevel = 0 THEN TRUE
        ELSE IF ~intersects(i.nsfwLevel, a.browsingLevel) THEN FALSE
        ELSE IF i.id \in a.hiddenPreferences.hiddenImages THEN FALSE
        ELSE IF anyHiddenTag(i.tagIds, a) THEN FALSE
        ELSE TRUE

\* Variant of bountiesMap whose returned bounty loses its tags.
bountiesMap_dropsTags(bounty, a, hidden) ==
    LET x == Rest(bounty, {"images", "tags"})
        keepImage(i) == bountiesImageFilter(i, a)
        filteredImages == SelectSeq(bounty.images, keepImage)
        h == IF Len(filteredImages) = 0 THEN Inc(hidden, "noImages") ELSE hidden
    IN  [item   |-> IF Len(filteredImages) # 0
                    THEN <<WithImages(x, filteredImages)>> ELSE <<>>,
         hidden |-> h]

bountiesMap(bounty, a, hidden) ==
    LET x == Rest(bounty, {"images"})
        keepImage(i) == bountiesImageFilter(i, a)
        filteredImages == SelectSeq(bounty.images, keepImage)
        h == IF Len(filteredImages) = 0 THEN Inc(hidden, "noImages") ELSE hidden
    IN  [item   |-> IF Len(filteredImages) # 0
                    THEN <<WithImages(x, filteredImages)>> ELSE <<>>,
         hidden |-> h]

filterBounties(a) ==
    LET passed == ArrayFilter(bountiesFilter, a.data, a, Start)
    IN  ArrayMapDefined(bountiesMap, passed.items, a,
            [items |-> <<>>, hidden |-> passed.hidden])

(***************************************************************************)
(* case 'posts'                                                            *)
(***************************************************************************)
postsFilter(post, a, hidden) ==
    LET userId  == Coalesce(post.userId, post.user)
        isOwner == userId # 0 /\ userId = a.currentUser.id
    IN  IF (isOwner \/ isModerator(a)) /\ post.nsfwLevel = 0 THEN Keep(hidden)
        ELSE IF ~intersects(post.nsfwLevel, a.browsingLevel)
        THEN Drop(hidden, "browsingLevel")
        ELSE IF userId # 0 /\ userId \in a.hiddenPreferences.hiddenUsers
        THEN Drop(hidden, "users")
        ELSE Keep(hidden)

postsImageFilter(image, a) ==
    LET userId  == Coalesce(image.userId, image.user)
        isOwner == userId = a.currentUser.id
    IN  IF (isOwner \/ isModerator(a)) /\ image.nsfwLevel = 0 THEN TRUE
        ELSE IF ~intersects(image.nsfwLevel, a.browsingLevel) THEN FALSE
        ELSE IF image.id \in a.hiddenPreferences.hiddenImages THEN FALSE
        ELSE IF anyHiddenTag(image.tagIds, a) THEN FALSE
        ELSE TRUE

\* Variant of postsMap that counts a post without the images field.
postsMap_countsMissing(post, a, hidden) ==
    IF "images" \notin DOMAIN post
    THEN [item |-> <<post>>, hidden |-> Inc(hidden, "noImages")]
    ELSE LET keepImage(image) == postsImageFilter(image, a)
             filteredImages == SelectSeq(post.images, keepImage)
             h == IF Len(filteredImages) = 0 THEN Inc(hidden, "noImages") ELSE hidden
         IN  [item   |-> IF Len(filteredImages) # 0 \/ a.showImageless
                         THEN <<WithImages(post, filteredImages)>> ELSE <<>>,
              hidden |-> h]

\* a post without the images field is returned as it is
postsMap(post, a, hidden) ==
    IF "images" \notin DOMAIN post THEN [item |-> <<post>>, hidden |-> hidden]
    ELSE LET keepImage(image) == postsImageFilter(image, a)
             filteredImages == SelectSeq(post.images, keepImage)
             h == IF Len(filteredImages) = 0 THEN Inc(hidden, "noImages") ELSE hidden
         IN  [item   |-> IF Len(filteredImages) # 0 \/ a.showImageless
                         THEN <<WithImages(post, filteredImages)>> ELSE <<>>,
              hidden |-> h]

filterPosts(a) ==
    LET passed == ArrayFilter(postsFilter, a.data, a, Start)
    IN  ArrayMapDefined(postsMap, passed.items, a,
            [items |-> <<>>, hidden |-> passed.hidden])

(***************************************************************************)
(* case 'tags'                                                             *)
(***************************************************************************)
moderatedTagIds(a) ==
    {x.id : x \in {m \in a.hiddenPreferences.moderatedTags :
                      m.nsfwLevel # 0 /\ intersects(m.nsfwLevel, a.browsingLevel)}}

\* Variant of tagsFilter that tests the level before the hidden tags.
tagsFilter_levelFirst(tag, a, hidden) ==
    IF tag.nsfwLevel # 0 /\ tag.nsfwLevel > PG13 /\ tag.id \notin moderatedTagIds(a)
    THEN Drop(hidden, "browsingLevel")
    ELSE IF tag.id \in a.hiddenPreferences.hiddenTags THEN Drop(hidden, "tags")
    ELSE Keep(hidden)

tagsFilter(tag, a, hidden) ==
    IF tag.id \in a.hiddenPreferences.hiddenTags THEN Drop(hidden, "tags")
    ELSE IF tag.nsfwLevel # 0 /\ tag.nsfwLevel > PG13 /\ tag.id \notin moderatedTagIds(a)
    THEN Drop(hidden, "browsingLevel")
    ELSE Keep(hidden)

filterTags(a) == ArrayFilter(tagsFilter, a.data, a, Start)

(***************************************************************************)
(* filterPreferences                                                       *)
(***************************************************************************)
Returned(r) == [items |-> r.items, hidden |-> r.hidden, threw |-> FALSE]

\* throw new Error('unhandled hidden user preferences filter type')
Thrown == [items |-> <<>>, hidden |-> ZeroHidden, threw |-> TRUE]

\* Variant of switchKey whose default case returns the empty result.
switchKey_defaultEmpty(a) ==
    CASE a.type = "models" -> Returned(filterModels(a))
      [] a.type = "images" -> Returned(filterImages(a))
      [] a.type = "articles" -> Returned(filterArticles(a))
      [] a.type = "users" -> Returned(filterUsers(a))
      [] a.type = "collections" -> Returned(filterCollections(a))
      [] a.type = "bounties" -> Returned(filterBounties(a))
      [] a.type = "posts" -> Returned(filterPosts(a))
      [] a.type = "tags" -> Returned(filterTags(a))
      [] OTHER -> Returned(Start)

\* switch (key) { ... default: throw }
switchKey(a) ==
    CASE a.type = "models" -> Returned(filterModels(a))
      [] a.type = "images" -> Returned(filterImages(a))
      [] a.type = "articles" -> Returned(filterArticles(a))
      [] a.type = "users" -> Returned(filterUsers(a))
      [] a.type = "collections" -> Returned(filterCollections(a))
      [] a.type = "bounties" -> Returned(filterBounties(a))
      [] a.type = "posts" -> Returned(filterPosts(a))
      [] a.type = "tags" -> Returned(filterTags(a))
      [] OTHER -> Thrown

\* Variant of filterPreferences that forgets the disabled flag.
filterPreferences_ignoresDisabled(a) ==
    IF ~a.hasData \/ a.hiddenPreferences.hiddenLoading
    THEN [items |-> <<>>, hidden |-> ZeroHidden, threw |-> FALSE]
    ELSE switchKey(a)

filterPreferences(a) ==
    IF ~a.hasData \/ a.disabled \/ a.hiddenPreferences.hiddenLoading
    THEN [items |-> <<>>, hidden |-> ZeroHidden, threw |-> FALSE]
    ELSE switchKey(a)

(***************************************************************************)
(* The inputs of a call.  Every list gives its k-th element the id k, so   *)
(* the ids of a list are unique, as those of a feed are.                   *)
(***************************************************************************)
ItemLevels == {0, PG13, R}
BrowsingLevels == {PG + PG13, PG + R}
Viewers ==
    {[id |-> 0, isModerator |-> FALSE],
     [id |-> 1, isModerator |-> FALSE],
     [id |-> 1, isModerator |-> TRUE]}
UserIds == 1 .. MaxUserId
TagSets == SUBSET (1 .. MaxTagId)
ItemIdSets == SUBSET (1 .. MaxItems)
ImageIdSets == SUBSET (1 .. MaxImages)

RECURSIVE ListsOfLen(_, _)
ListsOfLen(S, n) ==
    IF n = 0 THEN {<<>>}
    ELSE {Append(l, [x EXCEPT !.id = n]) : l \in ListsOfLen(S, n - 1), x \in S}

ListsUpTo(S, n) == UNION {ListsOfLen(S, k) : k \in 0 .. n}

\* userId ?? user?.id: the owner is absent, the viewer's id under userId, or
\* another id under user.id
OwnerFields == {<<0, 0>>, <<1, 0>>} \cup {<<0, u>> : u \in UserIds \ {1}}

Prefs(hm, hi, ht, hu, mt) ==
    [hiddenModels |-> hm, hiddenImages |-> hi, hiddenTags |-> ht,
     hiddenUsers |-> hu, moderatedTags |-> mt, hiddenLoading |-> FALSE]

Args(type, data, prefs, sh, si, al) ==
    [type |-> type, hasData |-> TRUE, data |-> data, hiddenPreferences |-> prefs,
     browsingLevel |-> systemBrowsingLevel, showHidden |-> sh, showImageless |-> si,
     disabled |-> FALSE, currentUser |-> currentUser, allowLowerLevels |-> al]

\* BaseImage
Images ==
    {[id |-> 0, userId |-> o[1], user |-> o[2], tagIds |-> t, nsfwLevel |-> l] :
        o \in OwnerFields, t \in TagSets, l \in ItemLevels}

\* BaseModel: the models whose own fields vary, over one plain image; and the
\* models of the viewer whose images vary
ModelImages ==
    {[id |-> 0, userId |-> u, tags |-> t, nsfwLevel |-> l] :
        u \in {0, 1}, t \in TagSets, l \in ItemLevels}

PlainModelImage == [id |-> 1, userId |-> 0, tags |-> {}, nsfwLevel |-> PG13]

Models ==
    {[id |-> 0, user |-> u, images |-> <<PlainModelImage>>, tags |-> t,
      nsfwLevel |-> l, nsfw |-> n] :
        u \in UserIds, t \in TagSets, l \in ItemLevels, n \in BOOLEAN}

ModelsOfViewer ==
    {[id |-> 1, user |-> 1, images |-> is, tags |-> {}, nsfwLevel |-> l, nsfw |-> n] :
        is \in ListsUpTo(ModelImages, MaxImages), l \in {0, PG13}, n \in BOOLEAN}

\* BaseArticle
CoverImages ==
    {<<>>} \cup {<<[id |-> 1, tags |-> t, nsfwLevel |-> PG13]>> : t \in TagSets}

Articles ==
    {[id |-> 0, user |-> u, nsfwLevel |-> l, tags |-> t, coverImage |-> c] :
        u \in UserIds, l \in ItemLevels, t \in TagSets, c \in CoverImages}

\* BaseUser
Users == [1 .. 0 -> UserIds] \cup UNION {[1 .. n -> {[id |-> u] : u \in UserIds}] : n \in 1 .. MaxItems}

\* BaseCollection
CollectionImages ==
    {[id |-> 0, tagIds |-> t, nsfwLevel |-> l, userId |-> u] :
        t \in TagSets, l \in ItemLevels, u \in UserIds}

PlainCollectionImage == [id |-> 1, tagIds |-> {}, nsfwLevel |-> PG13, userId |-> MaxUserId]

FeaturedId == MaxImages + 1

FeaturedImages ==
    {<<>>} \cup {<<[id |-> FeaturedId, tagIds |-> t, nsfwLevel |-> PG13,
                    userId |-> MaxUserId]>> : t \in TagSets}

Collections ==
    {[id |-> 0, userId |-> o[1], user |-> o[2], nsfwLevel |-> l, image |-> f,
      images |-> <<PlainCollectionImage>>] :
        o \in OwnerFields, l \in ItemLevels, f \in FeaturedImages}

CollectionsOfViewer ==
    {[id |-> 1, userId |-> 1, user |-> 0, nsfwLevel |-> l, image |-> f, images |-> is] :
        l \in {0, PG13}, f \in FeaturedImages,
        is \in ListsUpTo(CollectionImages, MaxImages)}

\* BaseBounty
Bounties ==
    {[id |-> 0, user |-> u, tags |-> t, nsfwLevel |-> l, nsfw |-> FALSE,
      images |-> <<PlainCollectionImage>>] :
        u \in UserIds, t \in TagSets, l \in ItemLevels}

BountiesOfViewer ==
    {[id |-> 1, user |-> 1, tags |-> {}, nsfwLevel |-> l, nsfw |-> FALSE, images |-> is] :
        l \in {0, PG13}, is \in ListsUpTo(CollectionImages, MaxImages)}

\* BasePost: images is optional
PlainPostImage == [id |-> 1, userId |-> 0, user |-> 0, tagIds |-> {}, nsfwLevel |-> PG13]

Posts ==
    {[id |-> 0, userId |-> o[1], user |-> o[2], nsfwLevel |-> l] :
        o \in OwnerFields, l \in ItemLevels}
    \cup
    {[id |-> 0, userId |-> o[1], user |-> o[2], nsfwLevel |-> l, images |-> is] :
        o \in OwnerFields, l \in ItemLevels, is \in {<<>>, <<PlainPostImage>>}}

PostsOfViewer ==
    {[id |-> 1, userId |-> 1, user |-> 0, nsfwLevel |-> l, images |-> is] :
        l \in {0, PG13}, is \in ListsUpTo(Images, MaxImages)}

\* BaseTag: nsfwLevel 0 is the absent level (!!tag.nsfwLevel is false of both)
Tags == {[id |-> 0, nsfwLevel |-> l] : l \in ItemLevels}

ModeratedTagSets == SUBSET {[id |-> 1, nsfwLevel |-> l] : l \in ItemLevels}

ContentTypes ==
    {"models", "images", "articles", "users", "collections", "bounties", "posts", "tags"}

(***************************************************************************)
(* The state machine: the session and the browsing level are ambient       *)
(* (useCurrentUser, useBrowsingLevelDebounced); a call takes its other     *)
(* arguments from its caller, and its result can be filtered again.        *)
(***************************************************************************)
NoArgs == [type |-> "none"]
NoRet == [threw |-> FALSE]

\* no component that uses the hook is mounted
NoMemo == [deps |-> <<>>]
NoProps == [type |-> "none"]
NoHookResult == [items |-> <<>>]

Unmounted ==
    /\ memo = NoMemo
    /\ previous = <<>>
    /\ props = NoProps
    /\ hookResult = NoHookResult

\* no InViewLoader is mounted
NoRendered == [inView |-> FALSE, loadCondition |-> FALSE, canLoad |-> TRUE]

NoLoader ==
    /\ inView = FALSE
    /\ loadCondition = FALSE
    /\ canLoad = TRUE
    /\ rendered = NoRendered
    /\ effectDeps = <<>>
    /\ loads = <<>>

Init ==
    /\ currentUser \in Viewers
    /\ systemBrowsingLevel \in BrowsingLevels
    /\ pc = "idle"
    /\ args = NoArgs
    /\ ret = NoRet
    /\ hiddenPreferencesContext = Prefs({}, {}, {}, {}, {})
    /\ Unmounted
    /\ NoLoader

Call(a) ==
    /\ args' = a
    /\ ret' = filterPreferences(a)
    /\ pc' = "returned"
    /\ UNCHANGED <<currentUser, systemBrowsingLevel>>
    /\ UNCHANGED hookVars
    /\ UNCHANGED loaderVars

CallModels ==
    /\ pc = "idle"
    /\ \/ \E d \in ListsUpTo(Models, MaxItems), hu \in SUBSET UserIds,
             hm \in ItemIdSets, ht \in TagSets, sh \in BOOLEAN, si \in BOOLEAN :
            Call(Args("models", d, Prefs(hm, {}, ht, hu, {}), sh, si, FALSE))
       \/ \E m \in ModelsOfViewer, hi \in ImageIdSets, ht \in TagSets, si \in BOOLEAN :
            Call(Args("models", <<m>>, Prefs({}, hi, ht, {}, {}), FALSE, si, FALSE))

CallImages ==
    /\ pc = "idle"
    /\ \E d \in ListsUpTo(Images, MaxItems), hu \in SUBSET UserIds,
          hi \in ItemIdSets, ht \in TagSets, sh \in BOOLEAN, al \in BOOLEAN :
        Call(Args("images", d, Prefs({}, hi, ht, hu, {}), sh, FALSE, al))

CallArticles ==
    /\ pc = "idle"
    /\ \E d \in ListsUpTo(Articles, MaxItems), hu \in SUBSET UserIds,
          hi \in SUBSET {1}, ht \in TagSets, sh \in BOOLEAN :
        Call(Args("articles", d, Prefs({}, hi, ht, hu, {}), sh, FALSE, FALSE))

CallUsers ==
    /\ pc = "idle"
    /\ \E d \in Users, hu \in SUBSET UserIds, hi \in SUBSET {1}, ht \in TagSets :
        Call(Args("users", d, Prefs({}, hi, ht, hu, {}), FALSE, FALSE, FALSE))

CallCollections ==
    /\ pc = "idle"
    /\ \/ \E d \in ListsUpTo(Collections, MaxItems), hu \in SUBSET UserIds,
             hi \in SUBSET {FeaturedId}, ht \in TagSets, sh \in BOOLEAN,
             si \in BOOLEAN :
            Call(Args("collections", d, Prefs({}, hi, ht, hu, {}), sh, si, FALSE))
       \/ \E c \in CollectionsOfViewer, hi \in ImageIdSets, ht \in TagSets,
             si \in BOOLEAN :
            Call(Args("collections", <<c>>, Prefs({}, hi, ht, {}, {}), FALSE, si, FALSE))

CallBounties ==
    /\ pc = "idle"
    /\ \/ \E d \in ListsUpTo(Bounties, MaxItems), hu \in SUBSET UserIds,
             hi \in SUBSET {1}, ht \in TagSets, sh \in BOOLEAN, si \in BOOLEAN :
            Call(Args("bounties", d, Prefs({}, hi, ht, hu, {}), sh, si, FALSE))
       \/ \E b \in BountiesOfViewer, hi \in ImageIdSets, ht \in TagSets,
             si \in BOOLEAN :
            Call(Args("bounties", <<b>>, Prefs({}, hi, ht, {}, {}), FALSE, si, FALSE))

CallPosts ==
    /\ pc = "idle"
    /\ \/ \E d \in ListsUpTo(Posts, MaxItems), hu \in SUBSET UserIds, si \in BOOLEAN,
             al \in BOOLEAN :
            Call(Args("posts", d, Prefs({}, {}, {}, hu, {}), FALSE, si, al))
       \/ \E p \in PostsOfViewer, hi \in ImageIdSets, ht \in TagSets, si \in BOOLEAN :
            Call(Args("posts", <<p>>, Prefs({}, hi, ht, {}, {}), FALSE, si, FALSE))

CallTags ==
    /\ pc = "idle"
    /\ \E d \in ListsUpTo(Tags, MaxItems), ht \in ItemIdSets, mt \in ModeratedTagSets :
        Call(Args("tags", d, Prefs({}, {}, ht, {}, mt), FALSE, FALSE, FALSE))

\* the calls that take the early return: disabled, no data, or preferences loading
CallShortCircuit ==
    /\ pc = "idle"
    /\ \E t \in ContentTypes \cup {"comments"}, d \in ListsUpTo(Images, 1),
          hi \in SUBSET {1}, sh \in BOOLEAN, si \in BOOLEAN,
          hasData \in BOOLEAN, disabled \in BOOLEAN, hiddenLoading \in BOOLEAN :
        /\ ~hasData \/ disabled \/ hiddenLoading
        /\ hasData \/ d = <<>>
        /\ Call([Args(t, d, [Prefs({}, hi, {}, {}, {}) EXCEPT
                                !.hiddenLoading = hiddenLoading], sh, si, FALSE)
                 EXCEPT !.hasData = hasData, !.disabled = disabled])

\* a type outside the closed set reaches the default case of the switch
CallUnsupported ==
    /\ pc = "idle"
    /\ \E d \in ListsUpTo(Images, 1), sh \in BOOLEAN, si \in BOOLEAN :
        Call(Args("comments", d, Prefs({}, {}, {}, {}, {}), sh, si, FALSE))

\* the items a call returned are filtered again, with the same arguments
Refilter ==
    /\ pc = "returned"
    /\ ~ret.threw
    /\ args.hasData
    /\ args' = [args EXCEPT !.data = ret.items]
    /\ ret' = filterPreferences(args')
    /\ pc' = "refiltered"
    /\ UNCHANGED <<currentUser, systemBrowsingLevel>>
    /\ UNCHANGED hookVars
    /\ UNCHANGED loaderVars

Next ==
    \/ CallModels
    \/ CallImages
    \/ CallArticles
    \/ CallUsers
    \/ CallCollections
    \/ CallBounties
    \/ CallPosts
    \/ CallTags
    \/ CallShortCircuit
    \/ CallUnsupported
    \/ Refilter

Spec == Init /\ [][Next]_vars

(***************************************************************************)
(* useApplyHiddenPreferences: the hook around filterPreferences.  An array *)
(* passed as data is its reference and its content (useMemo compares the   *)
(* references); the override ids are arrays, here sequences.               *)
(***************************************************************************)
\* new Map([...map, ...ids.map((id) => [id, true])])
WithIds(map, ids) == map \cup {ids[i] : i \in 1 .. Len(ids)}

\* JSON.stringify([...hiddenImages, ...hiddenUsers, ...hiddenTags]): the
\* string is one-to-one with the concatenated array
stringified(p) == p.hiddenImages \o p.hiddenUsers \o p.hiddenTags

\* const preferences = { ...hiddenPreferences }, its maps replaced by merged
\* copies where override ids were passed
preferences(p) ==
    [hiddenPreferencesContext EXCEPT
        !.hiddenImages = IF Len(p.hiddenImages) > 0
                         THEN WithIds(@, p.hiddenImages) ELSE @,
        !.hiddenUsers  = IF Len(p.hiddenUsers) > 0
                         THEN WithIds(@, p.hiddenUsers) ELSE @,
        !.hiddenTags   = IF Len(p.hiddenTags) > 0
                         THEN WithIds(@, p.hiddenTags) ELSE @]

\* browsingLevelOverride ?? systemBrowsingLevel
browsingLevelOf(p) ==
    IF p.browsingLevel # <<>> THEN p.browsingLevel[1] ELSE systemBrowsingLevel

\* the arguments the hook passes to filterPreferences
hookArgs(p) ==
    [type |-> p.type, hasData |-> TRUE, data |-> p.data.items,
     hiddenPreferences |-> preferences(p), browsingLevel |-> browsingLevelOf(p),
     showHidden |-> p.showHidden, showImageless |-> p.showImageless,
     disabled |-> p.disabled, currentUser |-> currentUser,
     allowLowerLevels |-> p.allowLowerLevels]

\* [data, hiddenPreferences, stringified, showHidden, disabled, browsingLevel]
memoDeps(p) ==
    <<p.data.ref, hiddenPreferencesContext, stringified(p), p.showHidden,
      p.disabled, browsingLevelOf(p)>>

hiddenCount(hidden) ==
    hidden.browsingLevel + hidden.models + hidden.images + hidden.tags + hidden.users

\* one call of the hook with the props p by a component whose useMemo holds m
\* and whose `previous` state is prev; the effect that follows the render
\* stores the items in `previous`
Render(p, m, prev) ==
    LET hit   == m # NoMemo /\ m.deps = memoDeps(p)
        value == IF hit THEN m.value ELSE filterPreferences(hookArgs(p))
    IN  /\ memo' = [deps |-> memoDeps(p), value |-> value]
        /\ args' = IF hit THEN args ELSE hookArgs(p)
        /\ ret' = IF hit THEN ret ELSE value
        /\ props' = p
        /\ hookResult' =
                [loadingPreferences |-> hiddenPreferencesContext.hiddenLoading,
                 items |-> IF p.isRefetching THEN prev ELSE value.items,
                 hiddenCount |-> hiddenCount(value.hidden)]
        /\ previous' = value.items
        /\ pc' = "rendered"
        /\ UNCHANGED <<currentUser, systemBrowsingLevel, hiddenPreferencesContext>>
        /\ UNCHANGED loaderVars

\* the lists a component passes as data: two references
HookImageA == [id |-> 1, userId |-> 2, user |-> 0, tagIds |-> {}, nsfwLevel |-> PG13]
HookImageB == [id |-> 2, userId |-> 1, user |-> 0, tagIds |-> {1}, nsfwLevel |-> PG13]

HookData ==
    {[ref |-> 1, items |-> <<HookImageA, HookImageB>>],
     [ref |-> 2, items |-> <<HookImageA>>]}

OverrideIds == {<<>>, <<1>>}

HookProps ==
    [type : {"images"}, data : HookData, showHidden : BOOLEAN,
     showImageless : {FALSE}, disabled : {FALSE}, isRefetching : BOOLEAN,
     hiddenImages : OverrideIds, hiddenUsers : OverrideIds,
     hiddenTags : OverrideIds, browsingLevel : {<<>>},
     allowLowerLevels : {FALSE}]

InitHook ==
    /\ currentUser \in {v \in Viewers : ~v.isModerator}
    /\ systemBrowsingLevel = PG + PG13
    /\ hiddenPreferencesContext \in
            {Prefs({}, {}, {}, {}, {}), Prefs({}, {2}, {}, {}, {})}
    /\ pc = "unmounted"
    /\ args = NoArgs
    /\ ret = NoRet
    /\ Unmounted
    /\ NoLoader

\* the first render of a component: its useMemo holds nothing yet
Mount ==
    /\ pc \in {"unmounted", "rendered"}
    /\ \E p \in HookProps : Render(p, NoMemo, <<>>)

\* a later render of the mounted component, with any props
Rerender ==
    /\ pc = "rendered"
    /\ \E p \in HookProps : Render(p, memo, previous)

NextHook ==
    \/ Mount
    \/ Rerender

SpecHook == InitHook /\ [][NextHook]_vars

(***************************************************************************)
(* Vocabulary of the properties: what a call was given and what it gave    *)
(* back, stated on the arguments and the result alone.                     *)
(***************************************************************************)
\* the call went through the switch of a supported type
Ran ==
    /\ pc # "idle"
    /\ args.type \in ContentTypes
    /\ args.hasData
    /\ ~args.disabled
    /\ ~args.hiddenPreferences.hiddenLoading

LevelTypes == {"models", "images", "articles", "collections", "bounties", "posts"}
ContainerTypes == {"models", "collections", "bounties", "posts"}

Positions == 1 .. Len(args.data)

OwnerOf(it) ==
    IF args.type \in {"models", "articles", "bounties"} THEN it.user
    ELSE IF it.userId # 0 THEN it.userId ELSE it.user

ViewerOwns(it) == OwnerOf(it) # 0 /\ OwnerOf(it) = args.currentUser.id

Exempted(it) ==
    (ViewerOwns(it) \/ args.currentUser.isModerator) /\ it.nsfwLevel = 0

Returns(it) == \E j \in 1 .. Len(ret.items) : ret.items[j].id = it.id

NoCommonBit(level, mask) == BitAnd(level, mask) = 0

Tiers == {PG, PG13, R}

HighestTier(mask) ==
    CHOOSE t \in Tiers : /\ ~NoCommonBit(t, mask)
                         /\ \A u \in Tiers : ~NoCommonBit(u, mask) => u <= t

\* the tally of the parent-level exclusions
Tally5 ==
    ret.hidden.browsingLevel + ret.hidden.users + ret.hidden.models
        + ret.hidden.images + ret.hidden.tags

Absent == Len(args.data) - Len(ret.items)

\* the returned items that carry an empty images list
EmptyReturned ==
    {j \in 1 .. Len(ret.items) :
        "images" \in DOMAIN ret.items[j] /\ ret.items[j].images = <<>>}

(***************************************************************************)
(* C1                                                                      *)
(***************************************************************************)
\* C1 as claimed: an item of the viewer (or any item, for a moderator) with
\* nsfwLevel 0 is in the output of every call that was not short-circuited.
C1_Original ==
    Ran /\ args.type \in LevelTypes =>
        \A k \in Positions : Exempted(args.data[k]) => Returns(args.data[k])

\* C1 amended: an exempted item is never excluded by a parent-level rule.  It
\* is returned by the images and articles filters always, and by the models,
\* collections and posts filters whenever showImageless is true; an exempted
\* item that is not returned is a container counted in hidden.noImages.
C1_ExemptedPassesParentRules ==
    Ran /\ args.type \in LevelTypes =>
        LET gone == {k \in Positions :
                        Exempted(args.data[k]) /\ ~Returns(args.data[k])}
        IN  /\ args.type \in {"images", "articles"} => gone = {}
            /\ args.type \in {"models", "collections", "posts"}
                    /\ args.showImageless => gone = {}
            /\ Cardinality(gone) <= ret.hidden.noImages

\* an exempted model that is hidden by id and whose owner is hidden is returned
C1_Witness ==
    /\ Ran /\ args.type = "models" /\ ~args.showHidden
    /\ \E k \in Positions :
        /\ Exempted(args.data[k])
        /\ args.data[k].id \in args.hiddenPreferences.hiddenModels
        /\ args.data[k].user \in args.hiddenPreferences.hiddenUsers
        /\ args.data[k].tags \cap args.hiddenPreferences.hiddenTags # {}
        /\ Returns(args.data[k])

(***************************************************************************)
(* C2                                                                      *)
(***************************************************************************)
\* C2 as claimed: without allowLowerLevels every item whose nsfwLevel shares no
\* bit with the browsing level is absent from the output, and
\* hidden.browsingLevel counts exactly these items.
C2_Original ==
    Ran /\ args.type \in LevelTypes /\ ~args.allowLowerLevels =>
        LET miss == {k \in Positions :
                        NoCommonBit(args.data[k].nsfwLevel, args.browsingLevel)}
        IN  /\ \A k \in miss : ~Returns(args.data[k])
            /\ ret.hidden.browsingLevel = Cardinality(miss)

\* C2 amended: without allowLowerLevels, for models, images, articles,
\* collections, bounties and posts, every item that is not exempted (owner or
\* moderator, nsfwLevel 0) and whose nsfwLevel shares no bit with the browsing
\* level is absent from the output, and hidden.browsingLevel counts exactly
\* these items.
C2_LevelMismatchExcluded ==
    Ran /\ args.type \in LevelTypes /\ ~args.allowLowerLevels =>
        LET miss == {k \in Positions :
                        /\ ~Exempted(args.data[k])
                        /\ NoCommonBit(args.data[k].nsfwLevel, args.browsingLevel)}
        IN  /\ \A k \in miss : ~Returns(args.data[k])
            /\ ret.hidden.browsingLevel = Cardinality(miss)

\* the example of the specification: mask PG|PG13, image A at PG13, B at R
C2_Witness ==
    /\ Ran /\ pc = "returned" /\ args.type = "images" /\ ~args.allowLowerLevels
    /\ args.browsingLevel = PG + PG13
    /\ Len(args.data) = 2
    /\ args.data[1].nsfwLevel = PG13
    /\ args.data[2].nsfwLevel = R
    /\ ret.items = <<args.data[1]>>
    /\ ret.hidden.browsingLevel = 1

(***************************************************************************)
(* C6                                                                      *)
(***************************************************************************)
\* C6: a call with disabled set, without data, or made while the preferences
\* are loading returns no item and a tally of zeros, and does not throw.
C6_ShortCircuit ==
    pc # "idle"
        /\ (args.disabled \/ ~args.hasData \/ args.hiddenPreferences.hiddenLoading)
    => /\ ret.items = <<>>
       /\ ~ret.threw
       /\ \A c \in DOMAIN ret.hidden : ret.hidden[c] = 0

\* a disabled call on a list of one image
C6_Witness ==
    /\ pc = "returned" /\ args.type = "images"
    /\ args.disabled /\ args.hasData /\ ~args.hiddenPreferences.hiddenLoading
    /\ Len(args.data) = 1
    /\ ret.items = <<>>

(***************************************************************************)
(* C7                                                                      *)
(***************************************************************************)
\* C7: filtering the items a call returned, with the same arguments, returns
\* these items unchanged: none removed, none reordered, child images included.
C7_Idempotent == pc = "refiltered" => ret.items = args.data

\* the second pass over a model with the nsfw flag whose two images were
\* sorted by the first pass
C7_Witness ==
    /\ pc = "refiltered" /\ args.type = "models"
    /\ Len(ret.items) = 1
    /\ ret.items[1].nsfw
    /\ Len(ret.items[1].images) = 2
    /\ NoCommonBit(ret.items[1].images[2].nsfwLevel, args.browsingLevel)
    /\ ~NoCommonBit(ret.items[1].images[1].nsfwLevel, args.browsingLevel)

(***************************************************************************)
(* The exclusion rules, read off an item and the arguments.                *)
(***************************************************************************)
HiddenIds == args.hiddenPreferences

\* the browsing-level rule: bit intersection, or for images under
\* allowLowerLevels the comparison with the highest enabled tier
LevelExcluded(it) ==
    IF args.type = "images" /\ args.allowLowerLevels
    THEN it.nsfwLevel > HighestTier(args.browsingLevel)
    ELSE NoCommonBit(it.nsfwLevel, args.browsingLevel)

OwnerHidden(it) == OwnerOf(it) # 0 /\ OwnerOf(it) \in HiddenIds.hiddenUsers

\* the tag ids attached to the item itself
OwnTags(it) ==
    IF args.type \in {"models", "articles", "bounties"} THEN it.tags
    ELSE IF args.type = "images" THEN it.tagIds
    ELSE {}

\* the cover image of an article, the featured image of a collection
SideImage(it) ==
    IF args.type = "articles" THEN it.coverImage
    ELSE IF args.type = "collections" /\ "image" \in DOMAIN it THEN it.image
    ELSE <<>>

\* the item is hidden by id: an image or a model by its own id, an article, a
\* collection or a bounty by the id of its cover, featured or attached image
HiddenById(it) ==
    CASE args.type = "images" -> it.id \in HiddenIds.hiddenImages
      [] args.type = "models" -> it.id \in HiddenIds.hiddenModels
      [] args.type \in {"articles", "collections"} ->
            SideImage(it) # <<>> /\ SideImage(it)[1].id \in HiddenIds.hiddenImages
      [] args.type = "bounties" ->
            \E n \in 1 .. Len(it.images) : it.images[n].id \in HiddenIds.hiddenImages
      [] OTHER -> FALSE

OwnTagHidden(it) == OwnTags(it) \cap HiddenIds.hiddenTags # {}

SideTagHidden(it) ==
    /\ SideImage(it) # <<>>
    /\ (IF args.type = "articles" THEN SideImage(it)[1].tags
        ELSE SideImage(it)[1].tagIds) \cap HiddenIds.hiddenTags # {}

CountOf(Reason(_), c) == Cardinality({k \in Positions : Reason(args.data[k]) = c})

(***************************************************************************)
(* C3                                                                      *)
(***************************************************************************)
\* C3 as claimed, on the types without child images: with showHidden an image
\* or an article that no rule but the hidden-id rule (own id, cover image id)
\* excludes is returned.
C3_Original ==
    Ran /\ args.type \in {"images", "articles"} /\ args.showHidden =>
        \A k \in Positions :
            LET it == args.data[k]
            IN  HiddenById(it) /\ ~LevelExcluded(it) /\ ~OwnerHidden(it)
                    /\ ~OwnTagHidden(it) /\ ~SideTagHidden(it)
                => Returns(it)

\* C3 amended: showHidden suppresses only the exclusion of an image by its own
\* id in the hidden images and of a model by its own id in the hidden models:
\* with showHidden nothing is counted under that rule and such an image is
\* returned, without it every such item is counted; an item excluded by
\* browsing level, hidden owner or hidden tag stays excluded.  An article, a
\* collection or a bounty whose cover, featured or attached image is hidden is
\* excluded whatever showHidden is.
C3_ShowHiddenOwnIdOnly ==
    Ran =>
        /\ args.type \in {"images", "models"} =>
            LET byId == {k \in Positions :
                            /\ ~Exempted(args.data[k])
                            /\ ~LevelExcluded(args.data[k])
                            /\ ~OwnerHidden(args.data[k])
                            /\ HiddenById(args.data[k])}
            IN  /\ ret.hidden[args.type] =
                        IF args.showHidden THEN 0 ELSE Cardinality(byId)
                /\ \A k \in Positions :
                        /\ ~Exempted(args.data[k])
                        /\ \/ LevelExcluded(args.data[k])
                           \/ OwnerHidden(args.data[k])
                           \/ OwnTagHidden(args.data[k])
                        => ~Returns(args.data[k])
                /\ \A k \in byId :
                        ~args.showHidden => ~Returns(args.data[k])
                /\ \A k \in byId :
                        args.type = "images" /\ args.showHidden
                            /\ ~OwnTagHidden(args.data[k])
                        => Returns(args.data[k])
        /\ args.type \in {"articles", "collections", "bounties"} =>
            \A k \in Positions :
                ~Exempted(args.data[k]) /\ HiddenById(args.data[k])
                    => ~Returns(args.data[k])

\* with showHidden, an image hidden by id is returned next to an image with a
\* hidden tag that is not
C3_Witness ==
    /\ Ran /\ args.type = "images" /\ args.showHidden
    /\ \E k, j \in Positions :
        /\ ~Exempted(args.data[k]) /\ HiddenById(args.data[k])
        /\ Returns(args.data[k])
        /\ ~Exempted(args.data[j]) /\ OwnTagHidden(args.data[j])
        /\ ~LevelExcluded(args.data[j]) /\ ~OwnerHidden(args.data[j])
        /\ ~Returns(args.data[j])

(***************************************************************************)
(* C4                                                                      *)
(***************************************************************************)
\* C4: every item absent from the output is counted once, under one reason,
\* and a returned item is counted under none of browsingLevel, users, models,
\* images, tags: the five counters sum to at most the number of absent items,
\* and with noImages they account for every absent item.
C4_OneCounterPerExclusion ==
    Ran => Tally5 <= Absent /\ Absent <= Tally5 + ret.hidden.noImages

(***************************************************************************)
(* C5                                                                      *)
(***************************************************************************)
\* the counter of the first rule that matches, in the order of the claim
C5_ClaimedReason(it) ==
    IF Exempted(it) THEN "none"
    ELSE IF LevelExcluded(it) THEN "browsingLevel"
    ELSE IF OwnerHidden(it) THEN "users"
    ELSE IF HiddenById(it) /\ ~args.showHidden
    THEN (IF args.type = "models" THEN "models" ELSE "images")
    ELSE IF OwnTagHidden(it) \/ SideTagHidden(it) THEN "tags"
    ELSE "none"

\* C5 as claimed: for models, images, articles and bounties each counter holds
\* the number of items whose first matching rule, in the order exemption,
\* browsing level, hidden user, hidden item (showHidden false), hidden tag, is
\* the rule of that counter.
C5_Original ==
    Ran /\ args.type \in {"models", "images", "articles", "bounties"} =>
        \A c \in {"browsingLevel", "users", "models", "images", "tags"} :
            ret.hidden[c] = CountOf(C5_ClaimedReason, c)

\* the counter of the first rule that matches, in the order of each type
C5_Reason(it) ==
    IF Exempted(it) THEN "none"
    ELSE IF LevelExcluded(it) THEN "browsingLevel"
    ELSE IF OwnerHidden(it) THEN "users"
    ELSE CASE args.type = "models" ->
                IF HiddenById(it) /\ ~args.showHidden THEN "models"
                ELSE IF OwnTagHidden(it) THEN "tags" ELSE "none"
           [] args.type = "images" ->
                IF HiddenById(it) /\ ~args.showHidden THEN "images"
                ELSE IF OwnTagHidden(it) THEN "tags" ELSE "none"
           [] args.type = "articles" ->
                IF OwnTagHidden(it) THEN "tags"
                ELSE IF HiddenById(it) THEN "images"
                ELSE IF SideTagHidden(it) THEN "tags" ELSE "none"
           [] args.type = "bounties" ->
                IF HiddenById(it) THEN "images"
                ELSE IF OwnTagHidden(it) THEN "tags" ELSE "none"
           [] args.type = "collections" ->
                IF HiddenById(it) THEN "images" ELSE "none"
           [] OTHER -> "none"

\* C5 amended: the first matching rule decides the single counter, in the
\* order exemption, browsing level, hidden user and then, per type: models:
\* own id in the hidden models with showHidden false, then tags; images: own
\* id in the hidden images with showHidden false, then tags; articles: the
\* article's tags, then the cover image id (whatever showHidden is), then the
\* cover image's tags; bounties: an attached image id (whatever showHidden
\* is), then tags; collections: the featured image id (whatever showHidden
\* is); posts: nothing more.  Each counter holds the number of items decided
\* by its rule (for collections the images counter holds at least that).
C5_FirstMatchWins ==
    Ran /\ args.type \in LevelTypes =>
        /\ \A c \in {"browsingLevel", "users", "models", "tags"} :
                ret.hidden[c] = CountOf(C5_Reason, c)
        /\ ret.hidden.images >= CountOf(C5_Reason, "images")
        /\ args.type # "collections" =>
                ret.hidden.images = CountOf(C5_Reason, "images")

\* a model that matches the hidden-user, hidden-model and hidden-tag rules is
\* counted under users alone
C5_Witness ==
    /\ Ran /\ args.type = "models" /\ ~args.showHidden /\ Len(args.data) = 1
    /\ ~Exempted(args.data[1]) /\ ~LevelExcluded(args.data[1])
    /\ OwnerHidden(args.data[1]) /\ HiddenById(args.data[1])
    /\ OwnTagHidden(args.data[1])
    /\ ret.hidden.users = 1 /\ Tally5 = 1 /\ ret.items = <<>>

(***************************************************************************)
(* C8                                                                      *)
(***************************************************************************)
\* C8 as claimed: the models and posts filters return every item that passes
\* the parent-level rules, whatever showImageless is, and count in noImages
\* the returned items left with an empty images list.
C8_Original ==
    Ran /\ args.type \in {"models", "posts"} =>
        /\ Absent = Tally5
        /\ ret.hidden.noImages = Cardinality(EmptyReturned)

\* C8 amended: models and posts honour showImageless.  A model or a post (with
\* an images list) that passes the parent-level rules and keeps no child image
\* adds 1 to hidden.noImages; it is returned with an empty images list when
\* showImageless is true, and is dropped when showImageless is false.
C8_ModelsPostsHonourShowImageless ==
    Ran /\ args.type \in {"models", "posts"} =>
        /\ args.showImageless =>
            /\ Absent = Tally5
            /\ ret.hidden.noImages = Cardinality(EmptyReturned)
        /\ ~args.showImageless =>
            /\ Absent = Tally5 + ret.hidden.noImages
            /\ EmptyReturned = {}

\* a model that passes the parent rules, keeps no image and is dropped
C8_Witness ==
    /\ Ran /\ pc = "returned" /\ args.type = "models" /\ ~args.showImageless
    /\ Len(args.data) = 1 /\ Len(args.data[1].images) = 1
    /\ ~Exempted(args.data[1])
    /\ Tally5 = 0
    /\ ret.hidden.noImages = 1
    /\ ret.items = <<>>

(***************************************************************************)
(* C9                                                                      *)
(***************************************************************************)
\* C9: for collections and bounties a parent that passes the parent-level
\* rules and keeps no child image is returned with an empty images list when
\* showImageless is true, and is dropped when it is false.
C9_ShowImagelessDecides ==
    Ran /\ args.type \in {"collections", "bounties"} =>
        /\ args.showImageless => ret.hidden.noImages = Cardinality(EmptyReturned)
        /\ ~args.showImageless =>
            /\ EmptyReturned = {}
            /\ Absent >= ret.hidden.noImages

(***************************************************************************)
(* C10                                                                     *)
(***************************************************************************)
\* the only image of the model is removed by its own evaluation: it is not
\* exempted and its level is refused (above the highest enabled tier under a
\* model with the nsfw flag, outside the mask otherwise)
C10_OnlyImageRefused(m) ==
    /\ Len(m.images) = 1
    /\ m.images[1].nsfwLevel # 0
    /\ IF m.nsfw THEN m.images[1].nsfwLevel > HighestTier(args.browsingLevel)
       ELSE NoCommonBit(m.images[1].nsfwLevel, args.browsingLevel)

C10_Case ==
    /\ Ran /\ pc = "returned" /\ args.type = "models" /\ Len(args.data) = 1
    /\ ViewerOwns(args.data[1]) /\ args.data[1].nsfwLevel = 0
    /\ C10_OnlyImageRefused(args.data[1])

\* C10 as claimed: a model of the viewer with nsfwLevel 0 whose only image is
\* refused is returned with an empty images list, and noImages is 1.
C10_Original ==
    C10_Case =>
        /\ ret.items = <<[args.data[1] EXCEPT !.images = <<>>]>>
        /\ ret.hidden.noImages = 1

\* C10 amended: the exemption of a container does not reach its images: under
\* an exempted parent that is returned, every returned image with a non-zero
\* level passes the level rule, is not hidden by id and has no hidden tag.  A
\* model of the viewer with nsfwLevel 0 whose only image is refused adds 1 to
\* noImages; it is returned with an empty images list when showImageless is
\* true and dropped when it is false.
C10_ExemptionDoesNotCascade ==
    /\ Ran /\ args.type \in ContainerTypes =>
        \A k \in Positions : \A j \in 1 .. Len(ret.items) :
            Exempted(args.data[k]) /\ ret.items[j].id = args.data[k].id
                /\ "images" \in DOMAIN ret.items[j]
            => \A n \in 1 .. Len(ret.items[j].images) :
                LET i == ret.items[j].images[n]
                IN  i.nsfwLevel # 0 =>
                    /\ IF args.type = "models" /\ ret.items[j].nsfw
                       THEN i.nsfwLevel <= HighestTier(args.browsingLevel)
                       ELSE ~NoCommonBit(i.nsfwLevel, args.browsingLevel)
                    /\ i.id \notin HiddenIds.hiddenImages
                    /\ (IF args.type = "models" THEN i.tags ELSE i.tagIds)
                            \cap HiddenIds.hiddenTags = {}
    /\ C10_Case =>
        /\ ret.hidden.noImages = 1
        /\ ret.items = IF args.showImageless
                       THEN <<[args.data[1] EXCEPT !.images = <<>>]>>
                       ELSE <<>>

\* the model of the viewer, its only image refused, returned without images
C10_Witness ==
    /\ C10_Case /\ args.showImageless
    /\ ret.items = <<[args.data[1] EXCEPT !.images = <<>>]>>
    /\ ret.hidden.noImages = 1

(***************************************************************************)
(* C11                                                                     *)
(***************************************************************************)
\* the items that no rule before the tag rule decides and that carry a hidden
\* tag, on themselves or on their cover or featured image
C11_Tagged ==
    {k \in Positions :
        /\ ~Exempted(args.data[k])
        /\ ~LevelExcluded(args.data[k])
        /\ ~OwnerHidden(args.data[k])
        /\ ~HiddenById(args.data[k])
        /\ OwnTagHidden(args.data[k]) \/ SideTagHidden(args.data[k])}

\* C11: an item with an attached tag in the hidden tags, that is not exempted
\* and not excluded by an earlier rule, is excluded and counted in hidden.tags;
\* the tags of an article's cover image and of a collection's featured image
\* count as attached.
C11_HiddenTagExcludes ==
    Ran /\ args.type \in {"models", "images", "articles", "bounties", "collections"} =>
        /\ \A k \in C11_Tagged : ~Returns(args.data[k])
        /\ ret.hidden.tags >= Cardinality(C11_Tagged)

(***************************************************************************)
(* C12                                                                     *)
(***************************************************************************)
\* s is t with some elements left out, the others in the order of t
IsSubseq(s, t) ==
    \E f \in [1 .. Len(s) -> 1 .. Len(t)] :
        /\ \A i, j \in 1 .. Len(s) : i < j => f[i] < f[j]
        /\ \A i \in 1 .. Len(s) : s[i] = t[f[i]]

IdsOf(s) == [i \in 1 .. Len(s) |-> s[i].id]

\* the child images an input item came with, the featured image of a
\* collection last
InImages(it) ==
    (IF "images" \in DOMAIN it THEN it.images ELSE <<>>)
        \o (IF args.type = "collections" THEN SideImage(it) ELSE <<>>)

C12_Hit(i) == ~NoCommonBit(i.nsfwLevel, args.browsingLevel)

C12_Miss(i) == NoCommonBit(i.nsfwLevel, args.browsingLevel)

\* C12: the returned items are the input items in their order, some left out;
\* the images of a returned item are its input images in their order, some
\* left out, except under a model with the nsfw flag, where the images whose
\* level intersects the browsing level come first and each of the two groups
\* is in the input order.
C12_Stable ==
    Ran =>
        /\ IsSubseq(IdsOf(ret.items), IdsOf(args.data))
        /\ args.type \in ContainerTypes =>
            \A j \in 1 .. Len(ret.items) : \A k \in Positions :
                args.data[k].id = ret.items[j].id /\ "images" \in DOMAIN ret.items[j]
                =>  LET in  == InImages(args.data[k])
                        out == ret.items[j].images
                    IN  IF args.type = "models" /\ ret.items[j].nsfw
                        THEN /\ out = SelectSeq(out, C12_Hit) \o SelectSeq(out, C12_Miss)
                             /\ IsSubseq(SelectSeq(out, C12_Hit), in)
                             /\ IsSubseq(SelectSeq(out, C12_Miss), in)
                        ELSE IsSubseq(out, in)

\* a model with the nsfw flag whose second image intersects the browsing level
\* and whose first does not: both are kept, in the other order
C12_Witness ==
    /\ Ran /\ pc = "returned" /\ args.type = "models"
    /\ Len(args.data) = 1 /\ args.data[1].nsfw
    /\ Len(args.data[1].images) = 2
    /\ C12_Miss(args.data[1].images[1]) /\ C12_Hit(args.data[1].images[2])
    /\ Len(ret.items) = 1
    /\ ret.items[1].images = <<args.data[1].images[2], args.data[1].images[1]>>

(***************************************************************************)
(* C13                                                                     *)
(***************************************************************************)
\* the set of the elements of a sequence
Elems(s) == {s[i] : i \in 1 .. Len(s)}

\* the input item a returned item was made from differs from it in the
\* images list alone, and that list holds images of the input item only
C13_OnlyImagesDiffer(out, in) ==
    /\ DOMAIN out = DOMAIN in
    /\ \A f \in DOMAIN in \ {"images"} : out[f] = in[f]
    /\ "images" \in DOMAIN in => Elems(out.images) \subseteq Elems(in.images)

\* C13 as claimed: every returned item is an input item with its images list
\* replaced by a part of it and every other field, the featured image of a
\* collection included, as it was.
\* (a featured image that was null may be absent from the returned item)
C13_Original ==
    Ran /\ pc = "returned" =>
        \A j \in 1 .. Len(ret.items) : \E k \in Positions :
            LET out == ret.items[j]
                in  == args.data[k]
            IN  /\ DOMAIN out \subseteq DOMAIN in
                /\ \A f \in DOMAIN in \ {"images"} :
                        IF f \in DOMAIN out THEN out[f] = in[f]
                        ELSE f = "image" /\ in[f] = <<>>
                /\ "images" \in DOMAIN in =>
                        /\ "images" \in DOMAIN out
                        /\ Elems(out.images) \subseteq Elems(in.images)

\* C13 amended: every returned item that is not a collection is an input item
\* with its images list (if it has one) replaced by a part of it and every
\* other field as it was.  A returned collection has no featured image field:
\* its images list is a part of the input's images followed by the input's
\* featured image, and its other fields are as they were.
C13_FrameOfReturnedItems ==
    Ran /\ pc = "returned" =>
        \A j \in 1 .. Len(ret.items) : \E k \in Positions :
            IF args.type = "collections"
            THEN /\ DOMAIN ret.items[j] = DOMAIN args.data[k] \ {"image"}
                 /\ \A f \in DOMAIN ret.items[j] \ {"images"} :
                        ret.items[j][f] = args.data[k][f]
                 /\ Elems(ret.items[j].images)
                        \subseteq Elems(InImages(args.data[k]))
            ELSE C13_OnlyImagesDiffer(ret.items[j], args.data[k])

\* a returned collection whose images list ends with what was its featured
\* image, after one of its two images was filtered out
C13_Witness ==
    /\ Ran /\ pc = "returned" /\ args.type = "collections"
    /\ Len(args.data) = 1 /\ Len(ret.items) = 1
    /\ args.data[1].image # <<>>
    /\ Len(args.data[1].images) = 2
    /\ "image" \notin DOMAIN ret.items[1]
    /\ ret.items[1].images = <<args.data[1].images[2], args.data[1].image[1]>>

(***************************************************************************)
(* C14                                                                     *)
(***************************************************************************)
\* the tag is a moderated tag whose moderation level is set and is enabled in
\* the browsing level
C14_Moderated(t) ==
    \E m \in args.hiddenPreferences.moderatedTags :
        /\ m.id = t.id
        /\ m.nsfwLevel # 0
        /\ ~NoCommonBit(m.nsfwLevel, args.browsingLevel)

C14_Reason(t) ==
    IF t.id \in args.hiddenPreferences.hiddenTags THEN "tags"
    ELSE IF t.nsfwLevel > PG13 /\ ~C14_Moderated(t) THEN "browsingLevel"
    ELSE "none"

C14_Returned(t) == C14_Reason(t) = "none"

\* C14: of a list of tags, a tag in the hidden tags is excluded and counted in
\* hidden.tags; otherwise a tag above PG13 is excluded and counted in
\* hidden.browsingLevel unless a moderated tag of its id has a level enabled
\* in the browsing level; every other tag, one without level included, is
\* returned.
C14_TagsRules ==
    Ran /\ args.type = "tags" =>
        /\ ret.items = SelectSeq(args.data, C14_Returned)
        /\ ret.hidden.tags = CountOf(C14_Reason, "tags")
        /\ ret.hidden.browsingLevel = CountOf(C14_Reason, "browsingLevel")
        /\ \A c \in DOMAIN ret.hidden \ {"tags", "browsingLevel"} : ret.hidden[c] = 0

\* two tags at R, neither hidden: the moderated one is returned, the other is
\* counted under browsingLevel
C14_Witness ==
    /\ Ran /\ pc = "returned" /\ args.type = "tags"
    /\ args.hiddenPreferences.hiddenTags = {}
    /\ Len(args.data) = 2
    /\ args.data[1].nsfwLevel = R /\ args.data[2].nsfwLevel = R
    /\ C14_Moderated(args.data[1]) /\ ~C14_Moderated(args.data[2])
    /\ ret.items = <<args.data[1]>>
    /\ ret.hidden.browsingLevel = 1

(***************************************************************************)
(* C15                                                                     *)
(***************************************************************************)
\* the items above the highest tier enabled in the browsing level
C15_Above == {k \in Positions : args.data[k].nsfwLevel > HighestTier(args.browsingLevel)}

\* C15 as claimed: under allowLowerLevels, whatever the type, the items counted
\* in hidden.browsingLevel are exactly those whose nsfwLevel is above the
\* highest enabled tier, and they are excluded.
C15_Original ==
    Ran /\ args.type \in LevelTypes /\ args.allowLowerLevels =>
        /\ ret.hidden.browsingLevel = Cardinality(C15_Above)
        /\ \A k \in C15_Above : ~Returns(args.data[k])

\* C15 amended: allowLowerLevels changes the browsing-level rule of the images
\* type only.  Of a list of images under allowLowerLevels, the images counted
\* in hidden.browsingLevel are exactly those above the highest enabled tier;
\* they are excluded, and an image at or below that tier is returned unless
\* a later rule (hidden user, hidden id, hidden tag) excludes it.  For the
\* other types the rule stays the bit intersection under allowLowerLevels.
C15_ThresholdForImages ==
    Ran /\ args.allowLowerLevels =>
        /\ args.type = "images" =>
            /\ ret.hidden.browsingLevel = Cardinality(C15_Above)
            /\ \A k \in C15_Above : ~Returns(args.data[k])
            /\ \A k \in Positions \ C15_Above :
                    /\ ~OwnerHidden(args.data[k])
                    /\ ~(HiddenById(args.data[k]) /\ ~args.showHidden)
                    /\ ~OwnTagHidden(args.data[k])
                    => Returns(args.data[k])
        /\ args.type \in LevelTypes \ {"images"} =>
            LET miss == {k \in Positions :
                            /\ ~Exempted(args.data[k])
                            /\ NoCommonBit(args.data[k].nsfwLevel, args.browsingLevel)}
            IN  /\ ret.hidden.browsingLevel = Cardinality(miss)
                /\ \A k \in miss : ~Returns(args.data[k])

\* under PG|R with allowLowerLevels an image at PG13 is returned and an image
\* at R too; nothing is counted
C15_Witness ==
    /\ Ran /\ pc = "returned" /\ args.type = "images" /\ args.allowLowerLevels
    /\ args.browsingLevel = PG + R
    /\ Len(args.data) = 2
    /\ args.data[1].nsfwLevel = PG13 /\ ~Exempted(args.data[1])
    /\ args.data[2].nsfwLevel = R
    /\ Len(ret.items) = 2
    /\ ret.hidden.browsingLevel = 0

(***************************************************************************)
(* C16                                                                     *)
(***************************************************************************)
\* a user of the list is excluded: hidden, and not the viewer
C16_Excluded(u) ==
    /\ u.id \in args.hiddenPreferences.hiddenUsers
    /\ u.id # args.currentUser.id

C16_Kept(u) == ~C16_Excluded(u)

\* C16: of a list of users exactly the hidden users other than the viewer are
\* excluded, each counted in hidden.users; no other counter moves, and the
\* browsing level, the hidden images and the hidden tags play no part.
C16_UsersRule ==
    Ran /\ args.type = "users" =>
        /\ ret.items = SelectSeq(args.data, C16_Kept)
        /\ ret.hidden.users = Len(args.data) - Len(ret.items)
        /\ \A c \in DOMAIN ret.hidden \ {"users"} : ret.hidden[c] = 0

\* the viewer and another user are both in the hidden users, next to hidden
\* images and hidden tags: the viewer alone is returned
C16_Witness ==
    /\ Ran /\ pc = "returned" /\ args.type = "users"
    /\ args.currentUser.id = 1
    /\ args.hiddenPreferences.hiddenUsers = {1, 2}
    /\ args.hiddenPreferences.hiddenImages # {}
    /\ args.hiddenPreferences.hiddenTags # {}
    /\ args.data = <<[id |-> 1], [id |-> 2]>>
    /\ ret.items = <<[id |-> 1]>>
    /\ ret.hidden.users = 1

(***************************************************************************)
(* C17                                                                     *)
(***************************************************************************)
\* the call took the early return: disabled, no data, or preferences loading
ShortCircuited ==
    args.disabled \/ ~args.hasData \/ args.hiddenPreferences.hiddenLoading

\* C17 as claimed: a call with a type outside the closed set throws, and never
\* returns a result.
C17_Original ==
    pc # "idle" /\ args.type \notin ContentTypes => ret.threw

\* C17 amended: a call with a type outside the closed set throws unless it is
\* short-circuited (disabled, no data, or preferences loading); the
\* short-circuited call returns the empty result whatever the type is.  A
\* call with a type of the closed set never throws.
C17_UnsupportedTypeThrows ==
    pc # "idle" =>
        /\ ret.threw <=> (args.type \notin ContentTypes /\ ~ShortCircuited)
        /\ args.type \notin ContentTypes /\ ShortCircuited =>
            /\ ret.items = <<>>
            /\ \A c \in DOMAIN ret.hidden : ret.hidden[c] = 0

\* a call with the type comments, on a list of one item, throws
C17_Witness ==
    /\ pc = "returned" /\ args.type = "comments"
    /\ ~ShortCircuited
    /\ Len(args.data) = 1
    /\ ret.threw

(***************************************************************************)
(* The rules of the child images, read off a parent, an image and the      *)
(* arguments.                                                              *)
(***************************************************************************)
\* the item passed the parent-level rules
Passed(it) == C5_Reason(it) = "none"

ChildOwner(i) ==
    IF args.type = "posts"
    THEN (IF i.userId # 0 THEN i.userId ELSE i.user)
    ELSE i.userId

ChildExempted(i) ==
    /\ (ChildOwner(i) # 0 /\ ChildOwner(i) = args.currentUser.id)
            \/ args.currentUser.isModerator
    /\ i.nsfwLevel = 0

\* the level rule of a child: under a model with the nsfw flag the comparison
\* with the highest enabled tier, the bit intersection otherwise
ChildLevelRefused(p, i) ==
    IF args.type = "models" /\ p.nsfw
    THEN i.nsfwLevel > HighestTier(args.browsingLevel)
    ELSE NoCommonBit(i.nsfwLevel, args.browsingLevel)

ChildTags(i) == IF args.type = "models" THEN i.tags ELSE i.tagIds

ChildKeptByRules(p, i) ==
    \/ ChildExempted(i)
    \/ /\ ~ChildLevelRefused(p, i)
       /\ i.id \notin HiddenIds.hiddenImages
       /\ ChildTags(i) \cap HiddenIds.hiddenTags = {}

\* the call left the item without image: dropped, or returned with no image
NoImageLeft(it) ==
    \A j \in 1 .. Len(ret.items) :
        ret.items[j].id = it.id =>
            \/ "images" \notin DOMAIN ret.items[j]
            \/ ret.items[j].images = <<>>

C19_ChildRulesAndCounters ==
    Ran /\ args.type \in ContainerTypes =>
        /\ \A j \in 1 .. Len(ret.items) : \A k \in Positions :
                args.data[k].id = ret.items[j].id /\ "images" \in DOMAIN ret.items[j]
                =>  Elems(ret.items[j].images) =
                        {i \in Elems(InImages(args.data[k])) :
                            ChildKeptByRules(args.data[k], i)}
        /\ \A c \in {"browsingLevel", "users", "models", "images", "tags"} :
                ret.hidden[c] = CountOf(C5_Reason, c)

(***************************************************************************)
(* C20                                                                     *)
(***************************************************************************)
\* the ids of an array of override ids
C20_Ids(ids) == {ids[i] : i \in 1 .. Len(ids)}

\* an image of the rendered list is hidden by the sets of the provider
\* joined with the ids this render passed
C20_HiddenNow(it) ==
    \/ /\ it.id \in hiddenPreferencesContext.hiddenImages \cup C20_Ids(props.hiddenImages)
       /\ ~props.showHidden
    \/ it.userId \in hiddenPreferencesContext.hiddenUsers \cup C20_Ids(props.hiddenUsers)
    \/ it.tagIds \cap (hiddenPreferencesContext.hiddenTags \cup C20_Ids(props.hiddenTags)) # {}

\* C20: the hidden sets in force in a call of the hook are those of the
\* provider joined with the ids passed to that call: of a list of images that
\* the browsing level admits, the call returns exactly those that these sets
\* do not hide, so that an id passed to an earlier call hides nothing in a
\* call that does not pass it.
C20_OverridesAreUnion ==
    pc = "rendered" /\ ~props.isRefetching =>
        \A k \in 1 .. Len(props.data.items) :
            (\E j \in 1 .. Len(hookResult.items) :
                    hookResult.items[j] = props.data.items[k])
                <=> ~C20_HiddenNow(props.data.items[k])

\* C20, second half: a call of the hook leaves the maps of the provider as
\* they were.
C20_ContextUntouched ==
    [][pc' = "rendered" => hiddenPreferencesContext' = hiddenPreferencesContext]_vars

(***************************************************************************)
(* useApplyHiddenPreferences rendered with every input of one render free  *)
(* to change from the render before: the props that useMemo lists among    *)
(* its dependencies, those it does not list, and the signed-in user.       *)
(***************************************************************************)
\* an image of the viewer with id 1, not rated yet
RenderImageOwn == [id |-> 3, userId |-> 1, user |-> 0, tagIds |-> {}, nsfwLevel |-> 0]

RenderData ==
    {[ref |-> 1, items |-> <<HookImageA, HookImageB>>],
     [ref |-> 2, items |-> <<HookImageA, RenderImageOwn>>]}

RenderProps ==
    [type : {"images"}, data : RenderData, showHidden : BOOLEAN,
     showImageless : {FALSE}, disabled : BOOLEAN, isRefetching : BOOLEAN,
     hiddenImages : OverrideIds, hiddenUsers : {<<>>},
     hiddenTags : {<<>>}, browsingLevel : {<<>>, <<PG + R>>},
     allowLowerLevels : BOOLEAN]

InitRender ==
    /\ currentUser \in {v \in Viewers : ~v.isModerator}
    /\ systemBrowsingLevel = PG + PG13
    /\ hiddenPreferencesContext = Prefs({}, {}, {}, {}, {})
    /\ pc = "unmounted"
    /\ args = NoArgs
    /\ ret = NoRet
    /\ Unmounted
    /\ NoLoader

\* the first render of the component
MountAny ==
    /\ pc = "unmounted"
    /\ \E p \in RenderProps : Render(p, NoMemo, <<>>)

\* a later render: the parent passes props, or the render that a change of
\* the session asked for takes place with the props of the last one
RerenderAny ==
    \/ /\ pc = "rendered"
       /\ \E p \in RenderProps : Render(p, memo, previous)
    \/ /\ pc = "scheduled"
       /\ Render(props, memo, previous)

\* useCurrentUser: the viewer signs in or out, which schedules a render of
\* the components that read the session
CurrentUserChanges ==
    /\ pc = "rendered"
    /\ \E v \in {u \in Viewers : ~u.isModerator} :
        /\ v # currentUser
        /\ currentUser' = v
    /\ pc' = "scheduled"
    /\ UNCHANGED <<systemBrowsingLevel, args, ret>>
    /\ UNCHANGED hookVars
    /\ UNCHANGED loaderVars

NextRender ==
    \/ MountAny
    \/ RerenderAny
    \/ CurrentUserChanges

SpecRender == InitRender /\ [][NextRender]_vars

(***************************************************************************)
(* C21                                                                     *)
(***************************************************************************)
\* what filterPreferences gives for the inputs of the render just made
C21_Current == filterPreferences(hookArgs(props))

\* C21: after any sequence of renders, a render that is not refetching
\* returns the items and the hiddenCount that filterPreferences gives for
\* the inputs of that very render; no result computed from an earlier value
\* of an input is returned.
C21_ResultIsCurrent ==
    pc = "rendered" /\ ~props.isRefetching =>
        /\ hookResult.items = C21_Current.items
        /\ hookResult.hiddenCount = hiddenCount(C21_Current.hidden)

\* a render whose useMemo dependencies equal those of the render before
\* although allowLowerLevels or the signed-in user of the two differ
C21_OmittedInputChanged ==
    /\ pc = "rendered"
    /\ ~props.isRefetching
    /\ \/ args.allowLowerLevels # props.allowLowerLevels
       \/ args.currentUser # currentUser

\* the inputs the dependencies omit or confuse are those of the value held
C21_SameOmitted ==
    /\ args.type = props.type
    /\ args.showImageless = props.showImageless
    /\ args.allowLowerLevels = props.allowLowerLevels
    /\ args.currentUser = currentUser
    /\ args.hiddenPreferences = preferences(props)

\* C21, what does hold: a result is stale only through an input that the
\* dependency list leaves out; when the value useMemo holds was computed
\* with the type, showImageless, allowLowerLevels, signed-in user and hidden
\* sets of this render, the result is that of this render.
C21_StaleOnlyThroughOmitted ==
    pc = "rendered" /\ ~props.isRefetching /\ C21_SameOmitted =>
        /\ hookResult.items = C21_Current.items
        /\ hookResult.hiddenCount = hiddenCount(C21_Current.hidden)

(***************************************************************************)
(* InViewLoader (components/InView/InViewLoader): one mounted instance.    *)
(* useInView and the parent change inView and loadCondition at any time;   *)
(* a render commits the values it read, and the effect of a render runs    *)
(* with those values, before the next render, when inView or loadCondition *)
(* differ from those the effect last ran with.  An invocation of loadFn is *)
(* "pending" until its promise settles, "timer" while the setTimeout of    *)
(* handleLoad is waiting, "done" once the timer has called setCanLoad.     *)
(***************************************************************************)
MaxLoads == 3

\* what the component function reads in a render
Current == [inView |-> inView, loadCondition |-> loadCondition, canLoad |-> canLoad]

\* [inView, loadCondition], the dependency list of the effect
effectDepsOf(r) == <<r.inView, r.loadCondition>>

\* the committed render has an effect that has not run yet
EffectPending == effectDeps # effectDepsOf(rendered)

\* the first render: useInView starts at false, useState(true)
InitLoader ==
    /\ inView = FALSE
    /\ loadCondition \in BOOLEAN
    /\ canLoad = TRUE
    /\ rendered = [inView |-> FALSE, loadCondition |-> loadCondition, canLoad |-> TRUE]
    /\ effectDeps = <<>>
    /\ loads = <<>>
    /\ currentUser = [id |-> 0, isModerator |-> FALSE]
    /\ systemBrowsingLevel = PG
    /\ hiddenPreferencesContext = Prefs({}, {}, {}, {}, {})
    /\ pc = "loader"
    /\ args = NoArgs
    /\ ret = NoRet
    /\ Unmounted

LoaderFrame ==
    /\ UNCHANGED <<currentUser, systemBrowsingLevel, pc, args, ret>>
    /\ UNCHANGED hookVars

\* the intersection observer reports that the element entered or left the
\* viewport
InViewChanges ==
    /\ pc = "loader"
    /\ inView' = ~inView
    /\ UNCHANGED <<loadCondition, canLoad, rendered, effectDeps, loads>>
    /\ LoaderFrame

\* the parent passes another loadCondition
LoadConditionChanges ==
    /\ pc = "loader"
    /\ loadCondition' = ~loadCondition
    /\ UNCHANGED <<inView, canLoad, rendered, effectDeps, loads>>
    /\ LoaderFrame

\* a render of the component: the effect of the render before has run
LoaderRender ==
    /\ pc = "loader"
    /\ ~EffectPending
    /\ rendered # Current
    /\ rendered' = Current
    /\ UNCHANGED <<inView, loadCondition, canLoad, effectDeps, loads>>
    /\ LoaderFrame

\* the body of useEffect without its test of canLoad
Effect_ignoresCanLoad ==
    /\ pc = "loader"
    /\ EffectPending
    /\ effectDeps' = effectDepsOf(rendered)
    /\ IF rendered.inView /\ rendered.loadCondition
       THEN /\ Len(loads) < MaxLoads
            /\ canLoad' = FALSE
            /\ loads' = Append(loads, "pending")
       ELSE UNCHANGED <<canLoad, loads>>
    /\ UNCHANGED <<inView, loadCondition, rendered>>
    /\ LoaderFrame

\* the body of useEffect, with the values of the committed render:
\* setCanLoad(false), then handleLoad() invokes loadFn
Effect ==
    /\ pc = "loader"
    /\ EffectPending
    /\ effectDeps' = effectDepsOf(rendered)
    /\ IF rendered.inView /\ rendered.loadCondition /\ rendered.canLoad
       THEN /\ Len(loads) < MaxLoads
            /\ canLoad' = FALSE
            /\ loads' = Append(loads, "pending")
       ELSE UNCHANGED <<canLoad, loads>>
    /\ UNCHANGED <<inView, loadCondition, rendered>>
    /\ LoaderFrame

\* await loadFn() returns: setTimeout(() => setCanLoad(true), loadTimeout)
loadFnResolves ==
    /\ pc = "loader"
    /\ \E i \in 1 .. Len(loads) :
        /\ loads[i] = "pending"
        /\ loads' = [loads EXCEPT ![i] = "timer"]
    /\ UNCHANGED <<inView, loadCondition, canLoad, rendered, effectDeps>>
    /\ LoaderFrame

\* await loadFn() throws: handleLoad ends without setting the timer
loadFnRejects ==
    /\ pc = "loader"
    /\ \E i \in 1 .. Len(loads) :
        /\ loads[i] = "pending"
        /\ loads' = [loads EXCEPT ![i] = "rejected"]
    /\ UNCHANGED <<inView, loadCondition, canLoad, rendered, effectDeps>>
    /\ LoaderFrame

\* the timer fires: setCanLoad(true)
setCanLoadTrue ==
    /\ pc = "loader"
    /\ \E i \in 1 .. Len(loads) :
        /\ loads[i] = "timer"
        /\ loads' = [loads EXCEPT ![i] = "done"]
    /\ canLoad' = TRUE
    /\ UNCHANGED <<inView, loadCondition, rendered, effectDeps>>
    /\ LoaderFrame

NextLoader ==
    \/ InViewChanges
    \/ LoadConditionChanges
    \/ LoaderRender
    \/ Effect
    \/ loadFnResolves
    \/ loadFnRejects
    \/ setCanLoadTrue

SpecLoader == InitLoader /\ [][NextLoader]_vars

(***************************************************************************)
(* C22                                                                     *)
(***************************************************************************)
\* this step invokes loadFn
C22_Invokes == Len(loads') > Len(loads)

\* C22: InViewLoader never has two loads in flight.  A step that invokes
\* loadFn is taken only when every earlier invocation has resolved and its
\* timer has set canLoad back to true, whatever inView and loadCondition did
\* in between, and only when inView, loadCondition and canLoad of the render
\* the effect belongs to are all true, canLoad being true in the state too.
C22_OneLoadAtATime ==
    [][C22_Invokes =>
            /\ \A i \in 1 .. Len(loads) : loads[i] = "done"
            /\ rendered.inView /\ rendered.loadCondition /\ rendered.canLoad
            /\ canLoad]_vars

\* loadFn is invoked again after an invocation that ran to its end, the
\* effect having run in between without invoking it
C22_Witness ==
    /\ Len(loads) = 2
    /\ loads[1] = "done"
    /\ loads[2] = "pending"
    /\ ~canLoad

====
